---- MODULE Spec2Model ----
(***************************************************************************)
(* A model of the sales chatbot's query engine, src/rag_app.py:            *)
(* AdvancedRAGPipeline.answer_query (the ordered keyword router, the year  *)
(* extraction, the fallback completion call), format_result, log_query,    *)
(* get_query_log and download_query_log.                                   *)
(*                                                                         *)
(* Text is modelled as a sequence of one-character strings, so that        *)
(* lower(), strip(), the substring test `p in query`, the year regex,      *)
(* ljust() and str() are computed character by character.  Text that comes *)
(* from outside the repository (a pandas exception message, the reply of   *)
(* the completion service, the fixed prompt sentences) is a single opaque  *)
(* element of such a sequence.                                             *)
(***************************************************************************)
EXTENDS Integers, Sequences, FiniteSets, TLC

VARIABLES
    df,          \* self.df: the rows loaded by __init__ (never written afterwards)
    columns,     \* self.df.columns: the column names of the loaded file, in order
    logExists,   \* whether logs/query_log.csv exists (it holds the header once it does)
    logRecords,  \* the records of logs/query_log.csv below the header, in file order
    calls,       \* number of answer_query invocations so far; also the clock read by datetime.now()
    op,          \* the operation that ran last
    query,       \* the argument of the last answer_query
    ret,         \* what the last operation gave its caller: a returned text or a raised exception
    raw,         \* the unformatted response of the last answer_query
    invoked,     \* the aggregation methods the last answer_query called, in order
    groqCalls,   \* the requests the last answer_query sent to the completion service
    trace,       \* the order in which the last answer_query reached log_query and format_result
    fmtIn,       \* the argument of a direct format_result call
    fmtOut       \* its outcome

vars == <<df, columns, logExists, logRecords, calls, op, query, ret, raw, invoked,
          groqCalls, trace, fmtIn, fmtOut>>

(***************************************************************************)
(* Bounds of the model.                                                    *)
(***************************************************************************)
MaxCalls == 2
MaxItems == 2

(***************************************************************************)
(* Characters and the text primitives of Python the code relies on.        *)
(***************************************************************************)
\* The characters the model uses, in code-point order (for string comparison).
Alphabet == <<"\t","\n"," ","'","(",")",",","-",".","0","1","2","3","4","5","6","7","8",
          "9",":","?","A","B","C","D","E","F","G","H","I","J","K","L","M","N","O",
          "P","Q","R","S","T","U","V","W","X","Y","Z","_","a","b","c","d","e","f",
          "g","h","i","j","k","l","m","n","o","p","q","r","s","t","u","v","w","x",
          "y","z","{","}">>
UpperCase == <<"A","B","C","D","E","F","G","H","I","J","K","L","M","N","O","P","Q","R",
          "S","T","U","V","W","X","Y","Z">>
LowerCase == <<"a","b","c","d","e","f","g","h","i","j","k","l","m","n","o","p","q","r",
          "s","t","u","v","w","x","y","z">>
Digits == <<"0","1","2","3","4","5","6","7","8","9">>

Range(s) == {s[i] : i \in 1..Len(s)}
SetMin(S) == CHOOSE x \in S : \A y \in S : x <= y
SetMax(S) == CHOOSE x \in S : \A y \in S : x >= y

Code(c) == CHOOSE i \in 1..Len(Alphabet) : Alphabet[i] = c

\* a < b for two texts, as Python compares str
TextLess(a, b) ==
    \E i \in 1..(Len(a) + 1) :
        /\ \A j \in 1..(i - 1) : j <= Len(b) /\ a[j] = b[j]
        /\ i <= Len(b)
        /\ (i = Len(a) + 1 \/ Code(a[i]) < Code(b[i]))

\* str.lower()
lower(s) ==
    [i \in 1..Len(s) |->
        IF s[i] \in Range(UpperCase)
        THEN LowerCase[CHOOSE k \in 1..Len(UpperCase) : UpperCase[k] = s[i]]
        ELSE s[i]]

IsSpace(c) == c \in {" ", "\t", "\n"}

\* str.strip()
strip(s) ==
    LET keep == {i \in 1..Len(s) : ~IsSpace(s[i])}
    IN  IF keep = {} THEN <<>> ELSE SubSeq(s, SetMin(keep), SetMax(keep))

\* p in s
Contains(p, s) ==
    \E i \in 0..(Len(s) - Len(p)) : SubSeq(s, i + 1, i + Len(p)) = p

RECURSIVE NatToStr(_)
NatToStr(n) ==
    IF n < 10 THEN <<Digits[n + 1]>>
    ELSE NatToStr(n \div 10) \o <<Digits[(n % 10) + 1]>>

\* str(n) of an int
IntToStr(n) == IF n < 0 THEN <<"-">> \o NatToStr(-n) ELSE NatToStr(n)

\* a faulty ljust that never pads
ljust_unpadded(s, width) == s

\* str.ljust(width)
ljust(s, width) == s \o [i \in 1..(width - Len(s)) |-> " "]

\* sep.join(parts)
RECURSIVE Join(_, _)
Join(sep, parts) ==
    IF parts = <<>> THEN <<>>
    ELSE IF Len(parts) = 1 THEN parts[1]
    ELSE parts[1] \o sep \o Join(sep, Tail(parts))

(***************************************************************************)
(* extract_year: re.search(r'\b(19\d{2}|20\d{2})\b', query).               *)
(***************************************************************************)
IsDigit(c) == c \in Range(Digits)
DigitVal(c) == (CHOOSE k \in 1..Len(Digits) : Digits[k] = c) - 1
IsWordChar(c) == IsDigit(c) \/ c = "_" \/ c \in Range(UpperCase) \/ c \in Range(LowerCase)

\* the pattern matches the four characters that start at position i
YearAt(q, i) ==
    /\ i + 3 <= Len(q)
    /\ \/ q[i] = "1" /\ q[i + 1] = "9"
       \/ q[i] = "2" /\ q[i + 1] = "0"
    /\ IsDigit(q[i + 2]) /\ IsDigit(q[i + 3])
    /\ (i = 1 \/ ~IsWordChar(q[i - 1]))
    /\ (i + 3 = Len(q) \/ ~IsWordChar(q[i + 4]))

\* None is <<>>, an int y is <<y>>
extract_year(q) ==
    LET hits == {i \in 1..Len(q) : YearAt(q, i)}
    IN  IF hits = {} THEN <<>>
        ELSE LET i == SetMin(hits)
             IN  <<DigitVal(q[i]) * 1000 + DigitVal(q[i + 1]) * 100
                   + DigitVal(q[i + 2]) * 10 + DigitVal(q[i + 3])>>

(***************************************************************************)
(* Values.  A response is a dict (an insertion-ordered sequence of items), *)
(* a str or None.  A dict key is a str (names) or an int (years, months).  *)
(***************************************************************************)
IntKey(n) == [isInt |-> TRUE, n |-> n, s |-> <<>>]
StrKey(s) == [isInt |-> FALSE, n |-> 0, s |-> s]
Item(k, v) == [k |-> k, v |-> v]

DictVal(items) == [kind |-> "dict", items |-> items, text |-> <<>>]
StrVal(t) == [kind |-> "str", items |-> <<>>, text |-> t]
NoneVal == [kind |-> "none", items |-> <<>>, text |-> <<>>]

\* the outcome of a call: a value, or a raised exception with its str(e)
Return(v) == [ok |-> TRUE, value |-> v, err |-> <<>>]
Raise(msg) == [ok |-> FALSE, value |-> NoneVal, err |-> msg]

\* str(e) of the KeyError pandas raises for a column the file does not have
KeyError(col) == <<"'">> \o col \o <<"'">>

\* NaN: what pandas reads from an empty text cell (a float, not a str)
NaN == <<"<NaN>">>

(***************************************************************************)
(* The dataset.  __init__ reads the file and preprocess_data requires      *)
(* ORDERDATE and the numeric columns (QUANTITYORDERED, PRICEEACH, SALES,   *)
(* MSRP); every other column may be missing from the file.                 *)
(* A row carries the fields the aggregations read; an ORDERDATE is its     *)
(* year and month, the two parts the code uses.                            *)
(***************************************************************************)
ORDERNUMBER == <<"O","R","D","E","R","N","U","M","B","E","R">>
QUANTITYORDERED == <<"Q","U","A","N","T","I","T","Y","O","R","D","E","R","E","D">>
PRICEEACH == <<"P","R","I","C","E","E","A","C","H">>
SALES == <<"S","A","L","E","S">>
ORDERDATE == <<"O","R","D","E","R","D","A","T","E">>
STATUS == <<"S","T","A","T","U","S">>
PRODUCTLINE == <<"P","R","O","D","U","C","T","L","I","N","E">>
MSRP == <<"M","S","R","P">>
CUSTOMERNAME == <<"C","U","S","T","O","M","E","R","N","A","M","E">>
COUNTRY == <<"C","O","U","N","T","R","Y">>

AllColumns == <<ORDERNUMBER, QUANTITYORDERED, PRICEEACH, SALES, ORDERDATE, STATUS,
                PRODUCTLINE, MSRP, CUSTOMERNAME, COUNTRY>>

Without(cols, c) == SelectSeq(cols, LAMBDA x : x # c)

Row(o, y, m, cust, country, line, status, sales) ==
    [ORDERNUMBER |-> o, ORDERDATE |-> [year |-> y, month |-> m], CUSTOMERNAME |-> cust,
     COUNTRY |-> country, PRODUCTLINE |-> line, STATUS |-> status, SALES |-> sales]

SampleRows == <<
    Row(10100, 2003, 1, <<"L","a","n","d">>, <<"U","S","A">>, <<"C","l","a","s","s","i","c"," ","C","a","r","s">>, <<"S","h","i","p","p","e","d">>, 500),
    Row(10100, 2003, 1, <<"L","a","n","d">>, <<"U","S","A">>, <<"T","r","a","i","n","s">>, <<"S","h","i","p","p","e","d">>, 300),
    Row(10101, 2003, 2, <<"E","u","r","o">>, <<"F","r","a","n","c","e">>, <<"C","l","a","s","s","i","c"," ","C","a","r","s">>, <<"S","h","i","p","p","e","d">>, 1000),
    Row(10102, 2004, 5, <<"M","i","n","i">>, <<"U","S","A">>, <<"P","l","a","n","e","s">>, <<"C","a","n","c","e","l","l","e","d">>, 800),
    Row(10103, 2004, 5, <<"C","o","r","s","o">>, <<"S","p","a","i","n">>, <<"S","h","i","p","s">>, <<"S","h","i","p","p","e","d">>, 800),
    Row(10104, 2004, 11, <<"B","a","a","n","e">>, <<"N","o","r","w","a","y">>, <<"S","h","i","p","s">>, <<"S","h","i","p","p","e","d">>, 200),
    Row(10105, 2005, 1, <<"D","r","a","g","o","n">>, <<"F","r","a","n","c","e">>, <<"C","l","a","s","s","i","c"," ","C","a","r","s">>, <<"O","n"," ","H","o","l","d">>, 100),
    Row(10106, 2005, 3, <<"A","t","e","l","i","e","r">>, <<"F","r","a","n","c","e">>, <<"T","r","a","i","n","s">>, <<"S","h","i","p","p","e","d">>, 50),
    Row(10107, 2005, 3, <<"L","a","n","d">>, <<"U","S","A">>, <<"P","l","a","n","e","s">>, <<"S","h","i","p","p","e","d">>, 400) >>

\* the same file with an empty PRODUCTLINE cell in its first row
RowsWithNaN == [SampleRows EXCEPT ![1].PRODUCTLINE = NaN]

\* the pipeline objects __init__ can construct: self.df with its columns
Datasets == {
    [columns |-> AllColumns, df |-> SampleRows],
    [columns |-> Without(AllColumns, ORDERNUMBER), df |-> SampleRows],
    [columns |-> Without(AllColumns, PRODUCTLINE), df |-> SampleRows],
    [columns |-> AllColumns, df |-> RowsWithNaN],
    [columns |-> AllColumns, df |-> <<>>] }

HasColumn(self, c) == c \in Range(self.columns)

(***************************************************************************)
(* The pandas primitives the aggregation methods are built from.           *)
(***************************************************************************)
KeyLess(a, b) == IF a.isInt THEN a.n < b.n ELSE TextLess(a.s, b.s)

\* the keys of a set in ascending order (groupby sorts its group keys)
SortKeys(S) ==
    [p \in 1..Cardinality(S) |->
        CHOOSE k \in S : Cardinality({o \in S : KeyLess(o, k)}) = p - 1]

\* the distinct elements of a sequence in order of first appearance
Distinct(s) ==
    LET firsts == {i \in 1..Len(s) : \A j \in 1..(i - 1) : s[j] # s[i]}
    IN  [p \in 1..Cardinality(firsts) |->
            s[CHOOSE i \in firsts : Cardinality({j \in firsts : j <= i}) = p]]

\* items by value, largest first; items of equal value keep their order
SortByValueDesc(items) ==
    LET n == Len(items)
        place(i) == Cardinality({j \in 1..n : items[j].v > items[i].v})
                    + Cardinality({j \in 1..i : items[j].v = items[i].v})
    IN  [p \in 1..n |-> items[CHOOSE i \in 1..n : place(i) = p]]

\* Series.head(n)
head(items, n) == SubSeq(items, 1, IF Len(items) < n THEN Len(items) ELSE n)

\* Series.nlargest(n): the n largest, largest first, ties in series order
nlargest(items, n) == head(SortByValueDesc(items), n)

RECURSIVE SumSales(_)
SumSales(rows) == IF rows = <<>> THEN 0 ELSE rows[1].SALES + SumSales(Tail(rows))

\* the group key of a row: the value of a column, or the year or month of ORDERDATE
KeyOf(r, by) ==
    CASE by = "year" -> IntKey(r.ORDERDATE.year)
      [] by = "month" -> IntKey(r.ORDERDATE.month)
      [] by = "CUSTOMERNAME" -> StrKey(r.CUSTOMERNAME)
      [] by = "COUNTRY" -> StrKey(r.COUNTRY)
      [] by = "PRODUCTLINE" -> StrKey(r.PRODUCTLINE)
      [] by = "STATUS" -> StrKey(r.STATUS)

\* the aggregate of the rows of one group
Agg(rows, how) ==
    CASE how = "SALES.sum" -> SumSales(rows)
      [] how = "ORDERNUMBER.count" -> Len(rows)
      [] how = "ORDERNUMBER.nunique" -> Cardinality({r.ORDERNUMBER : r \in Range(rows)})
      [] how = "CUSTOMERNAME.nunique" -> Cardinality({r.CUSTOMERNAME : r \in Range(rows)})

\* rows.groupby(by)[column].agg(): one item per group key, keys ascending;
\* a NaN key forms no group
GroupBy(rows, by, how) ==
    LET keys == SortKeys({KeyOf(r, by) : r \in Range(rows)} \ {StrKey(NaN)})
    IN  [i \in 1..Len(keys) |->
            Item(keys[i], Agg(SelectSeq(rows, LAMBDA r : KeyOf(r, by) = keys[i]), how))]

\* rows[by].value_counts(): rows per value, most frequent first
ValueCounts(rows, by) ==
    LET keys == Distinct([i \in 1..Len(rows) |-> KeyOf(rows[i], by)])
    IN  SortByValueDesc([i \in 1..Len(keys) |->
            Item(keys[i], Len(SelectSeq(rows, LAMBDA r : KeyOf(r, by) = keys[i])))])

(***************************************************************************)
(* The aggregation methods.                                                *)
(***************************************************************************)
total_orders_by_year(self) ==
    IF ~HasColumn(self, ORDERNUMBER) THEN Raise(KeyError(ORDERNUMBER))
    ELSE Return(DictVal(GroupBy(self.df, "year", "ORDERNUMBER.nunique")))

customer_with_most_orders(self) ==
    IF ~HasColumn(self, CUSTOMERNAME) THEN Raise(KeyError(CUSTOMERNAME))
    ELSE Return(DictVal(head(ValueCounts(self.df, "CUSTOMERNAME"), 1)))

top_customers_by_sales(self, top_n) ==
    IF ~HasColumn(self, CUSTOMERNAME) THEN Raise(KeyError(CUSTOMERNAME))
    ELSE Return(DictVal(nlargest(GroupBy(self.df, "CUSTOMERNAME", "SALES.sum"), top_n)))

product_line_sales(self) ==
    IF ~HasColumn(self, PRODUCTLINE) THEN Raise(KeyError(PRODUCTLINE))
    ELSE Return(DictVal(GroupBy(self.df, "PRODUCTLINE", "SALES.sum")))

sales_by_country(self) ==
    IF ~HasColumn(self, COUNTRY) THEN Raise(KeyError(COUNTRY))
    ELSE Return(DictVal(GroupBy(self.df, "COUNTRY", "SALES.sum")))

order_status_distribution(self) ==
    IF ~HasColumn(self, STATUS) THEN Raise(KeyError(STATUS))
    ELSE Return(DictVal(ValueCounts(self.df, "STATUS")))

\* year is <<>> (None) or <<y>>
orders_by_month_wrapper(self, year) ==
    LET y == IF year # <<>> THEN year
             ELSE IF self.df = <<>> THEN <<>>
             ELSE <<SetMax({r.ORDERDATE.year : r \in Range(self.df)})>>
        yearly_data == SelectSeq(self.df, LAMBDA r : <<r.ORDERDATE.year>> = y)
    IN  IF ~HasColumn(self, ORDERNUMBER) THEN Raise(KeyError(ORDERNUMBER))
        ELSE Return(DictVal(GroupBy(yearly_data, "month", "ORDERNUMBER.count")))

customers_by_country(self) ==
    IF ~HasColumn(self, COUNTRY) THEN Raise(KeyError(COUNTRY))
    ELSE IF ~HasColumn(self, CUSTOMERNAME) THEN Raise(KeyError(CUSTOMERNAME))
    ELSE Return(DictVal(GroupBy(self.df, "COUNTRY", "CUSTOMERNAME.nunique")))

(***************************************************************************)
(* answer_query: the router.                                               *)
(***************************************************************************)
DefaultTopN == 5

\* the rules of answer_query, in their declaration order
query_patterns == <<
    [pattern |-> <<<<"t","o","t","a","l"," ","o","r","d","e","r","s">>, <<"n","u","m","b","e","r"," ","o","f"," ","o","r","d","e","r","s">>>>, method |-> "total_orders_by_year"],
    [pattern |-> <<<<"t","o","p"," ","c","u","s","t","o","m","e","r">>, <<"m","o","s","t"," ","o","r","d","e","r","s">>>>, method |-> "customer_with_most_orders"],
    [pattern |-> <<<<"t","o","p"," ","c","u","s","t","o","m","e","r","s">>, <<"c","u","s","t","o","m","e","r","s"," ","b","y"," ","s","a","l","e","s">>>>, method |-> "top_customers_by_sales"],
    [pattern |-> <<<<"p","r","o","d","u","c","t"," ","l","i","n","e">>, <<"s","a","l","e","s"," ","b","y"," ","p","r","o","d","u","c","t">>>>, method |-> "product_line_sales"],
    [pattern |-> <<<<"s","a","l","e","s"," ","b","y"," ","c","o","u","n","t","r","y">>, <<"c","o","u","n","t","r","y"," ","s","a","l","e","s">>>>, method |-> "sales_by_country"],
    [pattern |-> <<<<"o","r","d","e","r"," ","s","t","a","t","u","s">>, <<"s","t","a","t","u","s"," ","d","i","s","t","r","i","b","u","t","i","o",
          "n">>>>, method |-> "order_status_distribution"],
    [pattern |-> <<<<"o","r","d","e","r","s"," ","b","y"," ","m","o","n","t","h">>, <<"m","o","n","t","h","l","y"," ","o","r","d","e","r","s">>>>, method |-> "orders_by_month_wrapper"],
    [pattern |-> <<<<"c","u","s","t","o","m","e","r","s"," ","b","y"," ","c","o","u","n","t",
          "r","y">>, <<"c","o","u","n","t","r","y"," ","c","u","s","t","o","m","e","r","s">>>>, method |-> "customers_by_country"] >>

\* any(p in query for p in pattern_obj['pattern'])
Matches(rule, q) == \E i \in 1..Len(rule.pattern) : Contains(rule.pattern[i], q)

\* pattern_obj['method'](...): the bound method, called with a year or with no argument
CallMethod(self, method, year) ==
    CASE method = "total_orders_by_year" -> total_orders_by_year(self)
      [] method = "customer_with_most_orders" -> customer_with_most_orders(self)
      [] method = "top_customers_by_sales" -> top_customers_by_sales(self, DefaultTopN)
      [] method = "product_line_sales" -> product_line_sales(self)
      [] method = "sales_by_country" -> sales_by_country(self)
      [] method = "order_status_distribution" -> order_status_distribution(self)
      [] method = "orders_by_month_wrapper" -> orders_by_month_wrapper(self, year)
      [] method = "customers_by_country" -> customers_by_country(self)

\* the body of the try block for a rule that matched
CallRule(self, rule, q) ==
    IF Contains(<<"y","e","a","r">>, q) /\ rule.method = "orders_by_month_wrapper"
    THEN LET year == extract_year(q)
         IN  IF year # <<>> THEN CallMethod(self, rule.method, year)
             ELSE CallMethod(self, rule.method, <<>>)
    ELSE CallMethod(self, rule.method, <<>>)

\* the for loop from rule i on: a call that returns leaves the loop (break), a call
\* that raises stores the error text and the loop goes on to the next rule
RECURSIVE ScanRules(_, _, _, _)
ScanRules(self, i, q, acc) ==
    IF i > Len(query_patterns) THEN acc
    ELSE LET rule == query_patterns[i]
         IN  IF ~Matches(rule, q) THEN ScanRules(self, i + 1, q, acc)
             ELSE LET r == CallRule(self, rule, q)
                      called == Append(acc.invoked, rule.method)
                  IN  IF r.ok THEN [response |-> r.value, invoked |-> called]
                      ELSE ScanRules(self, i + 1, q,
                               [response |-> StrVal(<<"E","r","r","o","r"," ","p","r","o","c","e","s","s","i","n","g"," ","q",
          "u","e","r","y",":"," ">> \o r.err),
                                invoked |-> called])

(***************************************************************************)
(* generate_groq_response: the fallback.                                   *)
(***************************************************************************)
DateStr(d) ==
    IntToStr(d.year) \o <<"-">> \o (IF d.month < 10 THEN <<"0">> ELSE <<>>) \o IntToStr(d.month)

DateLess(a, b) == a.year < b.year \/ (a.year = b.year /\ a.month < b.month)

\* the context f-string
ContextText(self) ==
    LET dates == {r.ORDERDATE : r \in Range(self.df)}
        first == CHOOSE d \in dates : \A o \in dates : o = d \/ DateLess(d, o)
        last == CHOOSE d \in dates : \A o \in dates : o = d \/ DateLess(o, d)
    IN  <<"\n            This is a sales dataset with columns:\n            ">>
        \o Join(<<","," ">>, self.columns)
        \o <<"\n            \n            Total rows: ">> \o IntToStr(Len(self.df))
        \o <<"\n            Unique Product Lines: ">>
        \o Join(<<","," ">>, Distinct([i \in 1..Len(self.df) |-> self.df[i].PRODUCTLINE]))
        \o <<"\n            Date Range: ">>
        \o (IF self.df = <<>> THEN <<"N","a","T">> ELSE DateStr(first)) \o <<" ","t","o"," ">>
        \o (IF self.df = <<>> THEN <<"N","a","T">> ELSE DateStr(last))
        \o <<"\n            ">>

SystemPrompt ==
    <<"You are a sales data analyst and given question but do not show how you reach to that conclusion.">>

\* what the completion service may do with a request: reply with text, with an
\* empty text, with no content, or fail
GroqOutcomes == {
    Return(StrVal(<<"Sales peaked in 2004.">>)),
    Return(StrVal(<<>>)),
    Return(NoneVal),
    Raise(<<"Connection error.">>) }

\* a faulty fallback that sends the request a second time when the first attempt fails
generate_groq_response_retries(self, q, outcome) ==
    LET request == [model |-> "llama-3.3-70b-versatile",
                    system |-> SystemPrompt,
                    user |-> <<"C","o","n","t","e","x","t",":"," ">> \o <<"...">> \o <<"\n","\n","Q","u","e","r","y",":"," ">> \o q]
    IN  IF outcome.ok THEN [response |-> outcome.value, requests |-> <<request>>]
        ELSE [response |-> StrVal(<<"E","r","r","o","r"," ","g","e","n","e","r","a","t","i","n","g"," ","r",
          "e","s","p","o","n","s","e",":"," ">> \o outcome.err),
              requests |-> <<request, request>>]

\* the response and the requests sent to the service
generate_groq_response(self, q, outcome) ==
    LET failed(msg) == StrVal(<<"E","r","r","o","r"," ","g","e","n","e","r","a","t","i","n","g"," ","r",
          "e","s","p","o","n","s","e",":"," ">> \o msg)
    IN  IF ~HasColumn(self, PRODUCTLINE)
        THEN [response |-> failed(KeyError(PRODUCTLINE)), requests |-> <<>>]
        ELSE IF \E r \in Range(self.df) : r.PRODUCTLINE = NaN
        THEN [response |-> failed(<<"sequence item 0: expected str instance, float found">>),
              requests |-> <<>>]
        ELSE LET request == [model |-> "llama-3.3-70b-versatile",
                             system |-> SystemPrompt,
                             user |-> <<"C","o","n","t","e","x","t",":"," ">> \o ContextText(self) \o <<"\n","\n","Q","u","e","r","y",":"," ">> \o q]
             IN  [response |-> IF outcome.ok THEN outcome.value ELSE failed(outcome.err),
                  requests |-> <<request>>]

(***************************************************************************)
(* format_result.                                                          *)
(***************************************************************************)
\* str(key)
KeyStr(k) == IF k.isInt THEN IntToStr(k.n) ELSE k.s

format_result(result) ==
    IF result.kind = "dict"
    THEN IF result.items = <<>>
         THEN Raise(<<"max() arg is an empty sequence">>)
         ELSE LET sorted_result == SortByValueDesc(result.items)
                  max_key_length ==
                      SetMax({Len(KeyStr(sorted_result[i].k)) : i \in 1..Len(sorted_result)})
                  formatted_lines ==
                      [i \in 1..Len(sorted_result) |->
                          ljust(KeyStr(sorted_result[i].k), max_key_length)
                          \o <<" ",":"," ">> \o IntToStr(sorted_result[i].v)]
              IN  Return(StrVal(<<"R","e","s","u","l","t","s",":","\n">> \o Join(<<"\n">>, formatted_lines)))
    ELSE IF result.kind = "str" /\ result.text # <<>>
    THEN Return(result)
    ELSE Return(StrVal(<<"N","o"," ","d","a","t","a"," ","f","o","u","n","d",".">>))

(***************************************************************************)
(* log_query.                                                              *)
(***************************************************************************)
\* repr(key)
KeyRepr(k) == IF k.isInt THEN IntToStr(k.n) ELSE <<"'">> \o k.s \o <<"'">>

\* str(response)
StrOf(result) ==
    IF result.kind = "dict"
    THEN <<"{">> \o Join(<<","," ">>, [i \in 1..Len(result.items) |->
                      KeyRepr(result.items[i].k) \o <<":"," ">> \o IntToStr(result.items[i].v)])
         \o <<"}">>
    ELSE IF result.kind = "str" THEN result.text
    ELSE <<"N","o","n","e">>

\* what the file system may do with the two writes of log_query
IOOutcomes == {"ok", "header_fails", "append_fails"}

\* a faulty log_query that writes the query into the response field
log_query_swapped(q, response, now, io) ==
    IF io # "ok" THEN [exists |-> logExists \/ io = "append_fails", records |-> logRecords,
                       raised |-> TRUE]
    ELSE [exists |-> TRUE, raised |-> FALSE,
          records |-> Append(logRecords, [timestamp |-> now, query |-> q, response |-> q])]

\* the file after the call, and whether the call raised
log_query(q, response, now, io) ==
    LET log_entry == [timestamp |-> now, query |-> q, response |-> StrOf(response)]
    IN  IF ~logExists /\ io = "header_fails"
        THEN [exists |-> FALSE, records |-> logRecords, raised |-> TRUE]
        ELSE IF io = "append_fails"
        THEN [exists |-> TRUE, records |-> logRecords, raised |-> TRUE]
        ELSE [exists |-> TRUE, records |-> Append(logRecords, log_entry), raised |-> FALSE]

(***************************************************************************)
(* get_query_log and download_query_log read self.query_log, an attribute  *)
(* that no method of the class ever assigns.                               *)
(***************************************************************************)
AttributeError == <<"'AdvancedRAGPipeline' object has no attribute 'query_log'">>

get_query_log == Raise(AttributeError)

DefaultLogName == <<"q","u","e","r","y","_","l","o","g",".","c","s","v">>

\* a faulty download_query_log that has an empty self.query_log to save: the
\* default filename is the log file itself, which is left with its header only
download_query_log_overwrites(filename) ==
    [value |-> StrVal(<<"Q","u","e","r","y"," ","l","o","g"," ","s","u","c","c","e","s","s","f",
          "u","l","l","y"," ","s","a","v","e","d"," ","t","o"," ","l","o","g","s",
          "/">> \o filename),
     exists |-> logExists \/ filename = <<"q","u","e","r","y","_","l","o","g",".","c","s","v">>,
     records |-> IF filename = <<"q","u","e","r","y","_","l","o","g",".","c","s","v">> THEN <<>> ELSE logRecords]

\* the returned text and the log file after the call; the try block catches
\* the AttributeError before anything is written
download_query_log(filename) ==
    [value |-> StrVal(<<"E","r","r","o","r"," ","s","a","v","i","n","g"," ","q","u","e","r","y",
          " ","l","o","g",":"," ">> \o AttributeError),
     exists |-> logExists, records |-> logRecords]

(***************************************************************************)
(* The state machine.                                                      *)
(***************************************************************************)
Returned(v) == [kind |-> "returned", value |-> v.text]
Raised(msg) == [kind |-> "raised", value |-> msg]
NoOutcome == [kind |-> "none", value |-> <<>>]

\* the queries users send
Queries == {
    <<" "," ","T","o","p"," ","C","u","s","t","o","m","e","r","s"," ">>,
    <<"c","u","s","t","o","m","e","r","s"," ","b","y"," ","s","a","l","e","s">>,
    <<"T","o","t","a","l"," ","o","r","d","e","r","s"," ","a","n","d"," ","s",
          "a","l","e","s"," ","b","y"," ","c","o","u","n","t","r","y">>,
    <<"p","r","o","d","u","c","t"," ","l","i","n","e"," ","a","n","d"," ","s",
          "a","l","e","s"," ","b","y"," ","c","o","u","n","t","r","y">>,
    <<"o","r","d","e","r","s"," ","b","y"," ","m","o","n","t","h"," ","i","n",
          " ","2","0","0","3">>,
    <<"O","r","d","e","r","s"," ","b","y"," ","m","o","n","t","h"," ","f","o",
          "r"," ","t","h","e"," ","y","e","a","r"," ","2","0","0","3">>,
    <<"m","o","n","t","h","l","y"," ","o","r","d","e","r","s"," ","i","n"," ",
          "y","e","a","r"," ","1","9","9","9">>,
    <<"o","r","d","e","r"," ","s","t","a","t","u","s">>,
    <<"c","u","s","t","o","m","e","r","s"," ","b","y"," ","c","o","u","n","t",
          "r","y">>,
    <<"W","h","a","t"," ","i","s"," ","t","h","e"," ","w","e","a","t","h","e",
          "r"," ","t","o","d","a","y">> }

(***************************************************************************)
(* answer_query up to its return value, everything but the log write, is  *)
(* a function of the pipeline, the query and the reply of the service.     *)
(* Its stages are tabulated over the finite inputs of the model, so that   *)
(* each case is computed once.                                             *)
(***************************************************************************)

\* line 38: query = query.lower().strip()
Normalized == [q \in Queries |-> strip(lower(q))]

\* lines 54-65: the response and the methods called when the loop is left
Routed ==
    [self \in Datasets |-> [q \in Queries |->
        ScanRules(self, 1, Normalized[q], [response |-> NoneVal, invoked |-> <<>>])]]

\* lines 67-69: the fallback when no rule gave a response
Answered ==
    [self \in Datasets |-> [q \in Queries |-> [outcome \in GroqOutcomes |->
        IF Routed[self][q].response = NoneVal
        THEN generate_groq_response(self, Normalized[q], outcome)
        ELSE [response |-> Routed[self][q].response, requests |-> <<>>]]]]

\* line 73: format_result(response)
Formatted ==
    [self \in Datasets |-> [q \in Queries |-> [outcome \in GroqOutcomes |->
        format_result(Answered[self][q][outcome].response)]]]

Respond(self, q, outcome) ==
    [query |-> Normalized[q],
     response |-> Answered[self][q][outcome].response,
     invoked |-> Routed[self][q].invoked,
     requests |-> Answered[self][q][outcome].requests,
     formatted |-> Formatted[self][q][outcome]]

Init ==
    /\ \E d \in Datasets : df = d.df /\ columns = d.columns
    /\ logExists = FALSE
    /\ logRecords = <<>>
    /\ calls = 0
    /\ op = "init"
    /\ query = <<>>
    /\ ret = NoOutcome
    /\ raw = NoneVal
    /\ invoked = <<>>
    /\ groqCalls = <<>>
    /\ trace = <<>>
    /\ fmtIn = NoneVal
    /\ fmtOut = NoOutcome

AnswerQuery(q, outcome, io) ==
    /\ calls < MaxCalls
    /\ io = "header_fails" => ~logExists
    /\ \E r \in {Respond([columns |-> columns, df |-> df], q, outcome)} :
       \E logged \in {log_query(r.query, r.response, calls + 1, io)} :
           /\ calls' = calls + 1
           /\ op' = "answer_query"
           /\ query' = q
           /\ raw' = r.response
           /\ invoked' = r.invoked
           /\ groqCalls' = r.requests
           /\ logExists' = logged.exists
           /\ logRecords' = logged.records
           /\ IF logged.raised
              THEN /\ trace' = <<"log_query">>
                   /\ ret' = Raised(<<"[Errno 28] No space left on device">>)
              ELSE /\ trace' = <<"log_query", "format_result">>
                   /\ ret' = IF r.formatted.ok THEN Returned(r.formatted.value)
                             ELSE Raised(r.formatted.err)
    /\ UNCHANGED <<df, columns, fmtIn, fmtOut>>

GetQueryLog ==
    /\ op' = "get_query_log"
    /\ ret' = IF get_query_log.ok THEN Returned(get_query_log.value)
              ELSE Raised(get_query_log.err)
    /\ UNCHANGED <<df, columns, logExists, logRecords, calls, query, raw, invoked,
                   groqCalls, trace, fmtIn, fmtOut>>

DownloadQueryLog(filename) ==
    /\ LET done == download_query_log(filename)
       IN  /\ op' = "download_query_log"
           /\ ret' = Returned(done.value)
           /\ logExists' = done.exists
           /\ logRecords' = done.records
    /\ UNCHANGED <<df, columns, calls, query, raw, invoked, groqCalls, trace, fmtIn, fmtOut>>

Next ==
    \/ \E q \in Queries, outcome \in GroqOutcomes, io \in IOOutcomes :
           AnswerQuery(q, outcome, io)
    \/ GetQueryLog
    \/ \E filename \in {DefaultLogName, <<"e","x","p","o","r","t",".","c","s","v">>} : DownloadQueryLog(filename)

Spec == Init /\ [][Next]_vars

(***************************************************************************)
(* Direct calls of format_result, for the claims about the formatter.      *)
(***************************************************************************)
FormatKeys == {StrKey(<<"F","r","a","n","c","e">>), StrKey(<<"U","S","A">>), StrKey(<<"U","K">>), IntKey(2003)}
FormatValues == {1000, 500, 75}
FormatItems == {Item(k, v) : k \in FormatKeys, v \in FormatValues}

\* the mappings of at most MaxItems entries (a dict holds a key once)
FormatDicts ==
    {s \in UNION {[1..n -> FormatItems] : n \in 0..MaxItems} :
        \A i, j \in 1..Len(s) : i # j => s[i].k # s[j].k}

FormatInputs ==
    {DictVal(s) : s \in FormatDicts}
    \cup {StrVal(<<"S","a","l","e","s"," ","p","e","a","k","e","d"," ","i","n"," ","2","0",
          "0","4",".">>), StrVal(<<>>), NoneVal}

\* the state before a direct call: the argument is chosen, nothing is returned yet
InitFormat ==
    /\ df = SampleRows /\ columns = AllColumns
    /\ logExists = FALSE
    /\ logRecords = <<>>
    /\ calls = 0
    /\ op = "init"
    /\ query = <<>>
    /\ ret = NoOutcome
    /\ raw = NoneVal
    /\ invoked = <<>>
    /\ groqCalls = <<>>
    /\ trace = <<>>
    /\ fmtIn \in FormatInputs
    /\ fmtOut = NoOutcome

FormatResult ==
    /\ op = "init"
    /\ op' = "format_result"
    /\ fmtOut' = IF format_result(fmtIn).ok THEN Returned(format_result(fmtIn).value)
                 ELSE Raised(format_result(fmtIn).err)
    /\ UNCHANGED <<df, columns, logExists, logRecords, calls, query, ret, raw, invoked,
                   groqCalls, trace, fmtIn>>

SpecFormat == InitFormat /\ [][FormatResult]_vars

(***************************************************************************)
(* Vocabulary of the properties.                                           *)
(***************************************************************************)
Self == [columns |-> columns, df |-> df]

\* the normalised text of the last query
NormQuery == strip(lower(query))

\* the rules with a trigger phrase in the normalised query
MatchingRules == {i \in 1..Len(query_patterns) : Matches(query_patterns[i], NormQuery)}

FirstMatch == query_patterns[SetMin(MatchingRules)]

LastRecord == logRecords[Len(logRecords)]

(***************************************************************************)
(* C1.  answer_query never raises to its caller: whatever the query and    *)
(* whatever fails (the aggregation, the completion call, the formatting,   *)
(* the log write), the caller gets a string back.                          *)
(***************************************************************************)
C1_NeverRaises == op = "answer_query" => ret.kind = "returned"

(***************************************************************************)
(* C2.  Rule precedence: when the normalised query holds trigger phrases   *)
(* of two or more rules, the response is the one the aggregation method of *)
(* the earliest declared of these rules produces.                          *)
(***************************************************************************)
C2_FirstRuleWins ==
    (op = "answer_query" /\ Cardinality(MatchingRules) >= 2) =>
        LET first == CallRule(Self, FirstMatch, NormQuery)
        IN  raw = IF first.ok THEN first.value
                  ELSE StrVal(<<"E","r","r","o","r"," ","p","r","o","c","e","s","s","i","n","g"," ","q",
          "u","e","r","y",":"," ">> \o first.err)

(***************************************************************************)
(* C3.  A query that matches no rule is sent to the completion service     *)
(* exactly once in that invocation, and the user message of the request    *)
(* carries a context with the column names and the row count.              *)
(***************************************************************************)
NoRuleMatched == op = "answer_query" /\ MatchingRules = {}

CarriesContext(request) ==
    /\ Contains(Join(<<","," ">>, columns), request.user)
    /\ Contains(<<"\n            \n            Total rows: ">> \o IntToStr(Len(df))
                \o <<"\n            Unique Product Lines: ">>, request.user)

ContextBuilds == HasColumn(Self, PRODUCTLINE) /\ \A i \in 1..Len(df) : df[i].PRODUCTLINE # NaN

C4_TopCustomers ==
    (/\ op = "answer_query"
     /\ Contains(<<"t","o","p"," ","c","u","s","t","o","m","e","r","s">>, NormQuery) \/ Contains(<<"c","u","s","t","o","m","e","r","s"," ","b","y"," ","s","a","l","e","s">>, NormQuery))
    => /\ raw = top_customers_by_sales(Self, 5).value
       /\ Len(raw.items) <= 5
       /\ \A i \in 1..(Len(raw.items) - 1) : raw.items[i].v >= raw.items[i + 1].v

(***************************************************************************)
(* C5.  Year extraction: when the matched rule is the month/orders one and *)
(* the query holds a token 19xx or 20xx, the monthly counts are those of   *)
(* the rows of that year.                                                  *)
(***************************************************************************)
C5_YearPassed ==
    (/\ op = "answer_query"
     /\ MatchingRules # {}
     /\ FirstMatch.method = "orders_by_month_wrapper"
     /\ extract_year(NormQuery) # <<>>
     /\ HasColumn(Self, ORDERNUMBER))
    => raw = orders_by_month_wrapper(Self, extract_year(NormQuery)).value

(***************************************************************************)
(* C6.  Every answer_query invocation appends exactly one record at the    *)
(* end of the log, with the lower-cased, trimmed input as its query; the   *)
(* records written before stay as they are, in their order, whatever       *)
(* sequence of answer_query, get_query_log and download_query_log runs.    *)
(***************************************************************************)
\* this step is an answer_query invocation
AnswerStep == calls' = calls + 1

AppendsOne ==
    /\ Len(logRecords') = Len(logRecords) + 1
    /\ SubSeq(logRecords', 1, Len(logRecords)) = logRecords
    /\ logRecords'[Len(logRecords')].query = strip(lower(query'))

C6_Original ==
    [][/\ AnswerStep => AppendsOne
       /\ ~AnswerStep => logRecords' = logRecords]_vars

\* C6 as amended: an invocation whose log write succeeds appends exactly one record;
\* one whose write fails, and every other operation, leaves the records as they are
C6_AppendOnly ==
    [][/\ (AnswerStep /\ trace' = <<"log_query", "format_result">>) => AppendsOne
       /\ (AnswerStep /\ trace' = <<"log_query">>) => logRecords' = logRecords
       /\ ~AnswerStep => logRecords' = logRecords]_vars

C6_Witness ==
    /\ op = "download_query_log"
    /\ Len(logRecords) = 2
    /\ logRecords[1].query = <<"t","o","p"," ","c","u","s","t","o","m","e","r","s">>
    /\ query = <<"W","h","a","t"," ","i","s"," ","t","h","e"," ","w","e","a","t","h","e",
          "r"," ","t","o","d","a","y">>
    /\ logRecords[2].query = <<"w","h","a","t"," ","i","s"," ","t","h","e"," ","w","e","a","t","h","e",
          "r"," ","t","o","d","a","y">>

(***************************************************************************)
(* C7.  get_query_log returns the whole log as delimited text, holding the *)
(* entry of every answer_query call so far, or the "no logs" text when     *)
(* nothing was logged.                                                     *)
(***************************************************************************)
C7_LogReadable ==
    op = "get_query_log" =>
        /\ ret.kind = "returned"
        /\ logRecords = <<>> =>
               ret.value = <<"t","i","m","e","s","t","a","m","p",",","q","u","e","r","y",",","r","e",
          "s","p","o","n","s","e","\n","N","o"," ","q","u","e","r","i","e","s"," ",
          "l","o","g","g","e","d"," ","y","e","t",".">>
        /\ \A i \in 1..Len(logRecords) : Contains(logRecords[i].query, ret.value)

(***************************************************************************)
(* C8.  The formatter's example: {"France": 1000, "USA": 500} gives the    *)
(* header "Results:", then the entries by value descending, the keys       *)
(* padded to the longest key.                                              *)
(***************************************************************************)
FranceUSA == DictVal(<<Item(StrKey(<<"F","r","a","n","c","e">>), 1000), Item(StrKey(<<"U","S","A">>), 500)>>)
USAFrance == DictVal(<<Item(StrKey(<<"U","S","A">>), 500), Item(StrKey(<<"F","r","a","n","c","e">>), 1000)>>)

\* as the claim spells the text: three spaces between USA and the colon
C8_Original ==
    (op = "format_result" /\ fmtIn = FranceUSA) =>
        fmtOut = [kind |-> "returned", value |-> <<"R","e","s","u","l","t","s",":","\n","F","r","a","n","c","e"," ",":"," ",
          "1","0","0","0","\n","U","S","A"," "," "," ",":"," ","5","0","0">>]

\* C8 as amended: USA is padded with three spaces to the width of France and the
\* separator " : " follows, four spaces in all; the order of insertion does not matter
C8_FormatterExample ==
    (op = "format_result" /\ fmtIn \in {FranceUSA, USAFrance}) =>
        fmtOut = [kind |-> "returned", value |-> <<"R","e","s","u","l","t","s",":","\n","F","r","a","n","c","e"," ",":"," ",
          "1","0","0","0","\n","U","S","A"," "," "," "," ",":"," ","5","0","0">>]

C8_Witness == op = "format_result" /\ fmtIn = USAFrance /\ fmtOut.kind = "returned"

(***************************************************************************)
(* C9.  Matched but failed: when the aggregation method of the first       *)
(* matching rule raises, the response is the captured message; no later    *)
(* rule's method is called and the completion service is not called.       *)
(***************************************************************************)
C9_NoFallThrough ==
    (/\ op = "answer_query"
     /\ MatchingRules # {}
     /\ ~CallRule(Self, FirstMatch, NormQuery).ok)
    => /\ raw = StrVal(<<"E","r","r","o","r"," ","p","r","o","c","e","s","s","i","n","g"," ","q",
          "u","e","r","y",":"," ">> \o CallRule(Self, FirstMatch, NormQuery).err)
       /\ invoked = <<FirstMatch.method>>
       /\ groqCalls = <<>>

(***************************************************************************)
(* C10.  The log write comes after the formatting, so the response field   *)
(* of the record an invocation appends is the formatted string that the    *)
(* invocation returns.                                                     *)
(***************************************************************************)
\* the last answer_query appended the last record of the log
AppendedNow ==
    /\ op = "answer_query"
    /\ logRecords # <<>>
    /\ LastRecord.timestamp = calls

C10_Original ==
    (AppendedNow /\ ret.kind = "returned") => LastRecord.response = ret.value

\* C10 as amended: the log write comes before the formatting; the response field is
\* str() of the unformatted response, which is the returned string exactly when the
\* response is a non-empty str
C10_LoggedBeforeFormat ==
    AppendedNow =>
        /\ trace = <<"log_query", "format_result">>
        /\ LastRecord.response = StrOf(raw)
        /\ (raw.kind = "str" /\ raw.text # <<>>) =>
               (ret.kind = "returned" /\ LastRecord.response = ret.value)
        /\ (raw.kind # "str" \/ raw.text = <<>>) =>
               (ret.kind = "raised" \/ LastRecord.response # ret.value)

C10_Witness ==
    /\ AppendedNow
    /\ raw.kind = "dict"
    /\ ret.kind = "returned"
    /\ LastRecord.response = <<"{","'","L","a","n","d","'",":"," ","3","}">>
    /\ ret.value = <<"R","e","s","u","l","t","s",":","\n","L","a","n","d"," ",":"," ","3">>


(***************************************************************************)
(* C11.  For every result that is empty, falsy or absent (an empty         *)
(* mapping, an empty string, None), format_result returns the literal      *)
(* string "No data found.".                                                *)
(***************************************************************************)
\* a result that is empty, falsy or absent
IsEmptyResult(result) ==
    \/ result.kind = "dict" /\ result.items = <<>>
    \/ result.kind = "str" /\ result.text = <<>>
    \/ result.kind = "none"

C11_NoDataFound ==
    (op = "format_result" /\ IsEmptyResult(fmtIn)) =>
        fmtOut = Returned(StrVal(<<"N","o"," ","d","a","t","a"," ","f","o","u","n","d",".">>))
====
